---- MODULE Spec2Model ----
(***************************************************************************)
(* Model of the soil-classification dashboard: the model-acquisition       *)
(* effect (loadModel), the upload handler, the synthetic generator, the    *)
(* analysis handler (analyzeImage) and the derived topPrediction.          *)
(*                                                                         *)
(* The repository holds three versions of the Dashboard component:         *)
(*   "Dashboard"  src/src/pages/Dashboard.tsx  (fallback to synthetic)     *)
(*   "part_000"   src/unnamed/part_000         (strict: errors surfaced)   *)
(*   "part_001"   src/unnamed/part_001         (no error state at all)     *)
(* A session runs exactly one of them; `variant` says which.               *)
(*                                                                         *)
(* Scheduling: JavaScript is single-threaded, so one action is the code    *)
(* between two suspension points (await / timer / user event) together     *)
(* with the re-render that React commits for the state it set.             *)
(***************************************************************************)
EXTENDS Integers, Sequences, FiniteSets, Bags, TLC

\* ---------------------------------------------------------------- bounds
\* analyzeImage invocations per session (rejected ones included)
MaxCalls == 1
\* images uploaded per session
MaxUploads == 1
\* Math.random() is drawn from {0/RandDen, ..., (RandDen-1)/RandDen}
RandDen == 1
\* predict() returns probabilities from {0/PGrid, ..., PGrid/PGrid}
PGrid == 1

\* the finer grid on which a single call of the generator is examined
FineDen == RandDen + 2
\* submissions of the login form per session
MaxSubmits == 2

\* Sessions driven through the page's controls are followed for one more click on
\* the Analyze button, or one more file choice, than direct calls of the handlers are.
SessionCalls == MaxCalls + 1
SessionUploads == MaxUploads + 1

\* call numbers, and the images a session may hold
Slots == 1..SessionCalls
Images == 1..SessionUploads

\* ------------------------------------------------------------- vocabulary
Variants == {"Dashboard", "part_000", "part_001"}

\* JavaScript null (useState(null) for model, error and image)
Null == "null"

\* JavaScript truthiness of a string-or-null value
Truthy(v) == v # Null /\ v # ""

\* the classifier handle the loader returns (one load call per session)
Handles == {"h1"}

\* metadata === null: the state before any setMetadata
NoMetadata == [isNull |-> TRUE, modelName |-> "", hasLabels |-> FALSE, labels |-> <<>>]

\* bodies response.json() may resolve with: JSON objects, with or without the two
\* fields (modelName "" stands for an absent field). The loader reads the same
\* resource and rejects anything that is not an object.
MetaBodies ==
    { [isNull |-> FALSE, modelName |-> "Soil Classifier", hasLabels |-> TRUE,
       labels |-> <<"Clay", "Sand", "Loam">>],
      [isNull |-> FALSE, modelName |-> "", hasLabels |-> TRUE,
       labels |-> <<"Clay", "Sand">>],
      [isNull |-> FALSE, modelName |-> "", hasLabels |-> FALSE, labels |-> <<>>] }

\* class names of the trained classifier, in its own order
ClassNames == <<"Clay", "Sand", "Loam">>

FallbackMessage == "Failed to load the soil classification model. Using fallback mode."

\* ---------------------------------------------------------- notifications
\* mutant: the description ignores metadataJson.modelName
ModelLoadedToastGeneric(mj) ==
    [title |-> "Model loaded",
     description |-> <<"Ready to analyze ", "soil samples">>,
     variant |-> "default"]

ModelLoadedToast(mj) ==
    [title |-> "Model loaded",
     description |-> <<"Ready to analyze ",
                       IF Truthy(mj.modelName) THEN mj.modelName ELSE "soil samples">>,
     variant |-> "default"]

ModelFailedToast(v) ==
    [title |-> "Model loading failed",
     description |-> IF v = "Dashboard" THEN <<"Using fallback classification mode">>
                     ELSE IF v = "part_000"
                          THEN <<"Please check that model files exist in the assets folder">>
                          ELSE <<"Please check console for details">>,
     variant |-> "destructive"]

ImageUploadedToast ==
    [title |-> "Image uploaded",
     description |-> <<"Click 'Analyze Soil' to process the image">>,
     variant |-> "default"]

NoImageToast(v) ==
    [title |-> "Cannot analyze",
     description |-> IF v = "part_001"
                     THEN <<"Please ensure the model is loaded and an image is uploaded">>
                     ELSE <<"Please upload an image first">>,
     variant |-> "destructive"]

ModelNotLoadedToast ==
    [title |-> "Model not loaded",
     description |-> <<"The soil classification model is not loaded yet">>,
     variant |-> "destructive"]

AnalysisCompleteToast ==
    [title |-> "Analysis complete",
     description |-> <<"Soil classification results are ready">>,
     variant |-> "default"]

AnalysisFailedToast(v) ==
    [title |-> "Analysis failed",
     description |-> IF v = "part_000" THEN <<"Error: ", "predict failed">>
                     ELSE <<"There was an error processing the image">>,
     variant |-> "destructive"]

\* ---------------------------------------------------------- probabilities
\* A JavaScript number in [0, 1] is kept as the exact fraction n / d (d > 0), so that
\* comparison and summation are decided without rounding.
Greater(p, q) == p.n * q.d > q.n * p.d

RECURSIVE SumN(_, _)
SumN(f, k) == IF k = 0 THEN 0 ELSE f[k] + SumN(f, k - 1)

\* results the external predict() may resolve with: one entry per class of the
\* classifier, for classifiers of 1 to Len(ClassNames) classes
PredictResults ==
    UNION { { [i \in 1..len |->
                 [className |-> ClassNames[i], probability |-> [n |-> f[i], d |-> PGrid]]]
              : f \in [1..len -> 0..PGrid] }
            : len \in 1..Len(ClassNames) }

\* ------------------------------------------------ generateMockPredictions
\* Math.random() is k / den. kd is the draw of the dominant index, ks[i] the draw of
\* label i. Raw probabilities are kept in units of 1 / (10 * den):
\* random * 0.3 + 0.4 is 3k + 4 * den units, random * 0.2 is 2k units.

\* mutant: the other labels are drawn from [0, 0.6)
RawProbabilityWide(den, index, dominantIndex, k) ==
    IF index = dominantIndex THEN 3 * k + 4 * den ELSE 6 * k

\* mutant: the dominant label is drawn from [0, 0.3)
RawProbabilityNoFloor(den, index, dominantIndex, k) ==
    IF index = dominantIndex THEN 3 * k ELSE 2 * k

RawProbability(den, index, dominantIndex, k) ==
    IF index = dominantIndex THEN 3 * k + 4 * den ELSE 2 * k

\* Math.floor(Math.random() * labels.length), counted from 1
DominantIndex(len, den, kd) == ((kd * len) \div den) + 1

generateMockPredictions(meta, den, kd, ks) ==
    IF meta.isNull \/ ~meta.hasLabels THEN <<>>
    ELSE LET labels == meta.labels
             dominantIndex == DominantIndex(Len(labels), den, kd)
             raw == [i \in 1..Len(labels) |->
                        RawProbability(den, i, dominantIndex, ks[i])]
             totalProb == SumN(raw, Len(labels))
         IN  [i \in 1..Len(labels) |->
                [className |-> labels[i],
                 probability |-> [n |-> raw[i], d |-> totalProb]]]

\* the draws one call of the generator may make, on the grid of denominator den
Draws(meta, den) == (0..(den - 1)) \X [1..Len(meta.labels) -> 0..(den - 1)]

\* every result one call of the generator may return
MockResults(meta) ==
    { generateMockPredictions(meta, RandDen, draw[1], draw[2]) :
        draw \in Draws(meta, RandDen) }

\* every result one call of the generator may return on the finer grid
FineResults(meta) ==
    { generateMockPredictions(meta, FineDen, draw[1], draw[2]) :
        draw \in Draws(meta, FineDen) }

\* ------------------------------------------------------------------ state
VARIABLES
    variant,         \* which version of the component this session runs
    image,           \* useState: 0 = null, k = the object URL of the k-th upload
    predictions,     \* useState: the published result sequence
    isAnalyzing,     \* useState
    metadata,        \* useState
    model,           \* useState: Null or a handle
    modelLoadError,  \* useState (modelError in part_000; absent, so Null, in part_001)
    progressValue,   \* useState of part_000
    toasts,          \* bag of the notifications emitted so far
    pcLoad,          \* position of the loadModel coroutine
    metadataJson,    \* loadModel's local metadataJson
    cb,              \* what the memoized analyzeImage closure captured
    runs,            \* the analyzeImage invocations, by call number
    calls,           \* number of analyzeImage invocations so far
    timers,          \* pending setTimeout(() => setProgressValue(0), 500)
    metaFail,        \* ghost: how the first metadata request failed, if it did
    loadOutcome,     \* ghost: outcome of the classifier load call
    loadedHandle,    \* ghost: the handle the load call resolved with
    lastReturned,    \* ghost: what predict() most recently resolved with
    last,            \* ghost: how the analyzeImage call that returned last went
    classifier,      \* ghost: what a deterministic classifier answered, by image
    publishedFor,    \* ghost: the image the held predictions were analysed for
    email,           \* useState of Login
    password,        \* useState of Login
    isLoading,       \* useState of Login
    loginTimers,     \* pending setTimeout callbacks of handleLogin, oldest first, each
                     \* with the email and password its closure captured
    location,        \* the route the router shows
    submits          \* number of handleLogin invocations so far

\* the state of the Dashboard component (with the notifications, which both share)
dashboardVars ==
    <<variant, image, predictions, isAnalyzing, metadata, model, modelLoadError,
      progressValue, pcLoad, metadataJson, cb, runs, calls, timers,
      metaFail, loadOutcome, loadedHandle, lastReturned, last, classifier,
      publishedFor>>

\* the state of the Login component and of the router
loginVars == <<email, password, isLoading, loginTimers, location, submits>>

vars == <<dashboardVars, toasts, loginVars>>

Emit(t) == toasts (+) SetToBag({t})

\* The closure the rendered analyzeImage holds after a render with the given state.
\* part_000 declares a plain function, new on every render. The other two memoize
\* with useCallback on [model, image, toast, modelLoadError] / [model, image, toast]:
\* the closure, and the generateMockPredictions (hence metadata) it captured, is
\* replaced only when one of those changes identity.
Render(m, img, err, meta) ==
    IF \/ variant = "part_000"
       \/ m # cb.model \/ img # cb.image \/ err # cb.modelLoadError
    THEN [model |-> m, image |-> img, modelLoadError |-> err, metadata |-> meta]
    ELSE cb

\* the frame of one analyzeImage call: its position, the state its closure captured,
\* the image imageRef.current showed when predict was called (`input`), its local
\* `prediction`, and (ghost) the session's state when it was called
NoRun ==
    [pc |-> "none", model |-> Null, modelLoadError |-> Null, metadata |-> NoMetadata,
     input |-> 0, prediction |-> <<>>, mockCalls |-> 0,
     acqAtStart |-> "Loading", imageAtStart |-> 0, labelsAtStart |-> 0]

\* a call that returned leaves no frame behind
Returned == [NoRun EXCEPT !.pc = "returned"]

NoCall ==
    [outcome |-> "none", acqAtStart |-> "Loading", imageAtStart |-> 0,
     labelsAtStart |-> 0, predictOutcome |-> "none", mockCalls |-> 0,
     hasPublished |-> FALSE, notified |-> "none", resolved |-> 0]

Init ==
    /\ variant \in Variants
    /\ image = 0
    /\ predictions = <<>>
    /\ isAnalyzing = FALSE
    /\ metadata = NoMetadata
    /\ model = Null
    /\ modelLoadError = Null
    /\ progressValue = 10
    /\ toasts = EmptyBag
    /\ pcLoad = "fetch1"
    /\ metadataJson = NoMetadata
    /\ cb = [model |-> Null, image |-> 0, modelLoadError |-> Null, metadata |-> NoMetadata]
    /\ runs = [r \in Slots |-> NoRun]
    /\ calls = 0
    /\ timers = 0
    /\ metaFail = "none"
    /\ loadOutcome = "none"
    /\ loadedHandle = Null
    /\ lastReturned = <<>>
    /\ last = NoCall
    /\ classifier = [i \in Images |-> <<>>]
    /\ publishedFor = 0
    /\ email = ""
    /\ password = ""
    /\ isLoading = FALSE
    /\ loginTimers = <<>>
    /\ location = "/dashboard"
    /\ submits = 0

\* AcquisitionState, as analyzeImage reads it (`model && !modelLoadError`)
AcqState ==
    IF Truthy(modelLoadError) THEN "Degraded"
    ELSE IF model # Null THEN "Ready"
    ELSE "Loading"

\* ------------------------------------------------------------- loadModel
\* mutant: the catch block forgets setModelLoadError
CatchErrorUnset(reason) == modelLoadError

\* The catch block of loadModel, entered with model and metadata as the try block
\* left them; reason is the thrown error's message (used by part_000 only).
CatchError(reason) ==
    IF variant = "Dashboard" THEN FallbackMessage
    ELSE IF variant = "part_000" THEN reason
    ELSE modelLoadError

\* mutant: the catch block emits no notification
CatchSilent(m, meta, reason) ==
    /\ model' = m
    /\ metadata' = meta
    /\ modelLoadError' = CatchError(reason)
    /\ toasts' = toasts
    /\ pcLoad' = IF variant = "Dashboard" THEN "fetch2" ELSE "done"
    /\ cb' = Render(m, image, CatchError(reason), meta)

Catch(m, meta, reason) ==
    /\ model' = m
    /\ metadata' = meta
    /\ modelLoadError' = CatchError(reason)
    /\ toasts' = Emit(ModelFailedToast(variant))
    /\ pcLoad' = IF variant = "Dashboard" THEN "fetch2" ELSE "done"
    /\ cb' = Render(m, image, CatchError(reason), meta)

\* await fetch("/assets/metadata.json")
FetchMetadata ==
    /\ pcLoad = "fetch1"
    /\ \E outcome \in {"ok", "status", "network"} :
         /\ metaFail' = IF outcome = "ok" THEN "none" ELSE outcome
         /\ IF outcome = "network"
            THEN Catch(model, metadata, "Error loading model: Failed to fetch")
            ELSE IF outcome = "status" /\ variant = "part_000"
            THEN Catch(model, metadata,
                       "Error loading model: Failed to load metadata: 404 Not Found")
            ELSE /\ pcLoad' = "json1"
                 /\ UNCHANGED <<model, metadata, modelLoadError, toasts, cb>>
    /\ UNCHANGED <<loginVars, variant, classifier, publishedFor,
                   image, predictions, isAnalyzing, progressValue, metadataJson,
                   runs, calls, timers, loadOutcome, loadedHandle, lastReturned, last>>

\* await metadataResponse.json(); setMetadata; the window.tmImage test; the load call
ParseMetadata ==
    /\ pcLoad = "json1"
    /\ \E parsed \in BOOLEAN, body \in MetaBodies, tm \in BOOLEAN :
         IF ~parsed
         THEN /\ metaFail' = IF metaFail = "none" THEN "body" ELSE metaFail
              /\ Catch(model, metadata, "Error loading model: Unexpected token < in JSON")
              /\ UNCHANGED <<metadataJson, loadOutcome>>
         ELSE /\ metadataJson' = body
              /\ UNCHANGED metaFail
              /\ IF variant = "part_000" /\ ~tm
                 THEN /\ loadOutcome' = "absent"
                      /\ Catch(model, body,
                               "Error loading model: Teachable Machine library not loaded. Please check your internet connection.")
                 ELSE /\ metadata' = body
                      /\ pcLoad' = "load"
                      /\ cb' = Render(model, image, modelLoadError, body)
                      /\ UNCHANGED <<model, modelLoadError, toasts, loadOutcome>>
    /\ UNCHANGED <<loginVars, variant, classifier, publishedFor,
                   image, predictions, isAnalyzing, progressValue,
                   runs, calls, timers, loadedHandle, lastReturned, last>>

\* await (window.)tmImage.load(...); setModel; toast; setModelLoadError(null)
LoadClassifier ==
    /\ pcLoad = "load"
    /\ \E resolved \in BOOLEAN, h \in Handles :
         IF ~resolved
         THEN /\ loadOutcome' = "rejected"
              /\ Catch(model, metadata, "Error loading model: Failed to fetch")
              /\ UNCHANGED loadedHandle
         ELSE /\ loadOutcome' = "resolved"
              /\ loadedHandle' = h
              /\ model' = h
              /\ toasts' = Emit(ModelLoadedToast(metadataJson))
              /\ modelLoadError' = IF variant = "Dashboard" THEN Null ELSE modelLoadError
              /\ pcLoad' = "done"
              /\ cb' = Render(h, image, modelLoadError', metadata)
              /\ UNCHANGED metadata
    /\ UNCHANGED <<loginVars, variant, classifier, publishedFor,
                   image, predictions, isAnalyzing, progressValue, metadataJson,
                   runs, calls, timers, metaFail, lastReturned, last>>

\* catch block of Dashboard.tsx: await fetch(...) again, inside its own try
RefetchMetadata ==
    /\ pcLoad = "fetch2"
    /\ \E outcome \in {"ok", "status", "network"} :
         pcLoad' = IF outcome = "network" THEN "done" ELSE "json2"
    /\ UNCHANGED <<loginVars, variant, classifier, publishedFor,
                   image, predictions, isAnalyzing, metadata, model,
                   modelLoadError, progressValue, toasts, metadataJson, cb, runs, calls,
                   timers, metaFail, loadOutcome, loadedHandle, lastReturned, last>>

\* mutant: the fallback metadata load clears the error once it succeeded
ReparseMetadataClearsError ==
    /\ pcLoad = "json2"
    /\ \E parsed \in BOOLEAN, body \in MetaBodies :
         /\ metadata' = IF parsed THEN body ELSE metadata
         /\ modelLoadError' = IF parsed THEN Null ELSE modelLoadError
         /\ cb' = Render(model, image, modelLoadError', metadata')
    /\ pcLoad' = "done"
    /\ UNCHANGED <<loginVars, variant, classifier, publishedFor,
                   image, predictions, isAnalyzing, model,
                   progressValue, toasts, metadataJson, runs, calls, timers, metaFail,
                   loadOutcome, loadedHandle, lastReturned, last>>

\* catch block of Dashboard.tsx: await metadataResponse.json(); setMetadata
ReparseMetadata ==
    /\ pcLoad = "json2"
    /\ \E parsed \in BOOLEAN, body \in MetaBodies :
         /\ metadata' = IF parsed THEN body ELSE metadata
         /\ cb' = Render(model, image, modelLoadError, metadata')
    /\ pcLoad' = "done"
    /\ UNCHANGED <<loginVars, variant, classifier, publishedFor,
                   image, predictions, isAnalyzing, model, modelLoadError,
                   progressValue, toasts, metadataJson, runs, calls, timers, metaFail,
                   loadOutcome, loadedHandle, lastReturned, last>>

\* ------------------------------------------------------ handleImageUpload
\* a file was chosen (the `if (!file) return` path changes nothing); the session is
\* followed up to `limit` uploads
handleImageUpload(limit) ==
    /\ image < limit
    /\ predictions' = <<>>
    /\ publishedFor' = 0
    /\ image' = image + 1
    /\ toasts' = Emit(ImageUploadedToast)
    /\ cb' = Render(model, image + 1, modelLoadError, metadata)
    /\ UNCHANGED <<loginVars, variant, classifier,
                   isAnalyzing, metadata, model, modelLoadError, progressValue,
                   pcLoad, metadataJson, runs, calls, timers, metaFail, loadOutcome,
                   loadedHandle, lastReturned, last>>

\* ------------------------------------------------------------ analyzeImage
\* mutant: the image check is dropped
PreconditionSkipsImage(c) ==
    IF variant # "Dashboard" /\ c.model = Null THEN "model not loaded" ELSE ""

\* mutant: the model check is dropped
PreconditionSkipsModel(c) == IF c.image = 0 THEN "no image" ELSE ""

\* the rejection analyzeImage answers with, "" when the preconditions pass
Precondition(c) ==
    IF variant = "part_001"
    THEN IF c.model = Null \/ c.image = 0 THEN "no image" ELSE ""
    ELSE IF c.image = 0 THEN "no image"
    ELSE IF variant = "part_000" /\ c.model = Null THEN "model not loaded"
    ELSE ""

Started(c) ==
    [NoRun EXCEPT !.pc = "delay", !.model = c.model,
                  !.modelLoadError = c.modelLoadError, !.metadata = c.metadata,
                  !.acqAtStart = AcqState, !.imageAtStart = image,
                  !.labelsAtStart = Len(metadata.labels)]

\* ghost record of a call that returned; `resolved` counts the calls so far whose
\* predict resolved
Summary(run, outcome, predictOutcome, mockCalls, hasPublished, notified) ==
    [outcome |-> outcome, acqAtStart |-> run.acqAtStart,
     imageAtStart |-> run.imageAtStart, labelsAtStart |-> run.labelsAtStart,
     predictOutcome |-> predictOutcome, mockCalls |-> mockCalls,
     hasPublished |-> hasPublished, notified |-> notified,
     resolved |-> last.resolved + (IF predictOutcome = "resolved" THEN 1 ELSE 0)]

\* analyzeImage is called (the handler itself, whatever the button's disabled
\* attribute says): the precondition checks, then setIsAnalyzing(true) up to the
\* first await; the session is followed up to `limit` calls
analyzeImage(limit) ==
    /\ calls < limit
    /\ calls' = calls + 1
    /\ LET why == Precondition(cb) IN
         IF why # ""
         THEN /\ toasts' = Emit(IF why = "no image" THEN NoImageToast(variant)
                                ELSE ModelNotLoadedToast)
              /\ runs' = [runs EXCEPT ![calls + 1] = Returned]
              /\ last' = Summary(Started(cb), "rejected", "none", 0, FALSE, why)
              /\ UNCHANGED <<isAnalyzing, predictions, progressValue, publishedFor>>
         ELSE /\ isAnalyzing' = TRUE
              /\ predictions' = IF variant = "part_000" THEN <<>> ELSE predictions
              /\ publishedFor' = IF variant = "part_000" THEN 0 ELSE publishedFor
              /\ progressValue' = IF variant = "part_000" THEN 30 ELSE progressValue
              /\ runs' = [runs EXCEPT ![calls + 1] = Started(cb)]
              /\ UNCHANGED <<toasts, last>>
    /\ UNCHANGED <<loginVars, variant, classifier,
                   image, metadata, model, modelLoadError, pcLoad, metadataJson,
                   cb, timers, metaFail, loadOutcome, loadedHandle, lastReturned>>

\* mutant: the test on model is negated
UsesRealModelNegated(run) == run.model = Null /\ ~Truthy(run.modelLoadError)

\* the branch analyzeImage of Dashboard.tsx takes after the delay
UsesRealModel(run) == run.model # Null /\ ~Truthy(run.modelLoadError)

\* the 100 ms delay is over: call predict, or generate and start the 800 ms delay
AfterDelay(r) ==
    /\ runs[r].pc = "delay"
    /\ IF variant = "Dashboard" /\ ~UsesRealModel(runs[r])
       THEN \E mock \in MockResults(runs[r].metadata) :
                runs' = [runs EXCEPT ![r].pc = "mockDelay", ![r].prediction = mock,
                                     ![r].mockCalls = @ + 1]
       ELSE runs' = [runs EXCEPT ![r].pc = "predict", ![r].input = image]
    /\ progressValue' = IF variant = "part_000" THEN 50 ELSE progressValue
    /\ UNCHANGED <<loginVars, variant, classifier, publishedFor,
                   image, predictions, isAnalyzing, metadata, model,
                   modelLoadError, toasts, pcLoad, metadataJson, cb, calls, timers,
                   metaFail, loadOutcome, loadedHandle, lastReturned, last>>

\* the finally block
Finally ==
    /\ isAnalyzing' = FALSE
    /\ progressValue' = IF variant = "part_000" THEN 100 ELSE progressValue
    /\ timers' = IF variant = "part_000" THEN timers + 1 ELSE timers

\* mutant: the result is appended to the results already held
PublishesAppended(prediction) == predictions \o prediction

\* setPredictions(prediction): the try block publishes what it was given
Publishes(prediction) == prediction

\* the rest of the try block once predict resolved with p, and the finally block
PredictReturns(r, p) ==
    /\ lastReturned' = p
    /\ predictions' = Publishes(p)
    /\ publishedFor' = runs[r].imageAtStart
    /\ runs' = [runs EXCEPT ![r] = Returned]
    /\ last' = Summary(runs[r], "done", "resolved", runs[r].mockCalls, TRUE, "complete")
    /\ toasts' = Emit(AnalysisCompleteToast)
    /\ Finally
    /\ UNCHANGED <<loginVars, variant, image, metadata, model, modelLoadError, pcLoad, metadataJson,
                   cb, calls, metaFail, loadOutcome, loadedHandle>>

\* model.predict(imageRef.current) resolved, with any result
PredictResolved(r) ==
    /\ runs[r].pc = "predict"
    /\ \E p \in PredictResults : PredictReturns(r, p)
    /\ UNCHANGED classifier

\* model.predict(imageRef.current) resolved, the classifier being a function of the
\* image: it answers as it did before for an image it has seen
PredictComputed(r) ==
    /\ runs[r].pc = "predict"
    /\ runs[r].input \in Images
    /\ \E p \in (IF classifier[runs[r].input] = <<>> THEN PredictResults
                  ELSE {classifier[runs[r].input]}) :
         /\ PredictReturns(r, p)
         /\ classifier' = [classifier EXCEPT ![runs[r].input] = p]

\* model.predict(imageRef.current) threw or rejected: the catch block
PredictRejected(r) ==
    /\ runs[r].pc = "predict"
    /\ IF variant = "Dashboard"
       THEN /\ \E mock \in MockResults(runs[r].metadata) : predictions' = mock
            /\ publishedFor' = runs[r].imageAtStart
            /\ last' = Summary(runs[r], "done", "rejected", runs[r].mockCalls + 1,
                               TRUE, "complete")
            /\ toasts' = Emit(AnalysisCompleteToast)
       ELSE /\ last' = Summary(runs[r], "done", "rejected", runs[r].mockCalls,
                               FALSE, "failed")
            /\ toasts' = Emit(AnalysisFailedToast(variant))
            /\ UNCHANGED <<predictions, publishedFor>>
    /\ runs' = [runs EXCEPT ![r] = Returned]
    /\ Finally
    /\ UNCHANGED <<loginVars, variant, classifier,
                   image, metadata, model, modelLoadError, pcLoad, metadataJson,
                   cb, calls, metaFail, loadOutcome, loadedHandle, lastReturned>>

\* Dashboard.tsx, fallback branch: the 800 ms delay is over
AfterMockDelay(r) ==
    /\ runs[r].pc = "mockDelay"
    /\ predictions' = Publishes(runs[r].prediction)
    /\ publishedFor' = runs[r].imageAtStart
    /\ runs' = [runs EXCEPT ![r] = Returned]
    /\ last' = Summary(runs[r], "done", "none", runs[r].mockCalls, TRUE, "complete")
    /\ toasts' = Emit(AnalysisCompleteToast)
    /\ Finally
    /\ UNCHANGED <<loginVars, variant, classifier,
                   image, metadata, model, modelLoadError, pcLoad, metadataJson,
                   cb, calls, metaFail, loadOutcome, loadedHandle, lastReturned>>

\* part_000: setTimeout(() => setProgressValue(0), 500) fires
ResetProgress ==
    /\ timers > 0
    /\ timers' = timers - 1
    /\ progressValue' = 0
    /\ UNCHANGED <<loginVars, variant, classifier, publishedFor,
                   image, predictions, isAnalyzing, metadata, model,
                   modelLoadError, toasts, pcLoad, metadataJson, cb, runs, calls,
                   metaFail, loadOutcome, loadedHandle, lastReturned, last>>

\* ------------------------------------------------------------ topPrediction
\* the reducer: (prev.probability > current.probability) ? prev : current
Reducer(prev, current) ==
    IF Greater(prev.probability, current.probability) THEN prev ELSE current

RECURSIVE Reduce(_, _)
\* Array.prototype.reduce without an initial value, over the first k entries
Reduce(preds, k) ==
    IF k = 1 THEN preds[1] ELSE Reducer(Reduce(preds, k - 1), preds[k])

NoPrediction == [className |-> Null, probability |-> [n |-> 0, d |-> 1]]

topPrediction ==
    IF Len(predictions) > 0 THEN Reduce(predictions, Len(predictions)) ELSE NoPrediction

Next ==
    \/ analyzeImage(MaxCalls)
    \/ \E r \in Slots : AfterDelay(r)
    \/ \E r \in Slots : PredictResolved(r)
    \/ \E r \in Slots : PredictRejected(r)
    \/ \E r \in Slots : AfterMockDelay(r)
    \/ ResetProgress
    \/ FetchMetadata
    \/ ParseMetadata
    \/ LoadClassifier
    \/ RefetchMetadata
    \/ ReparseMetadata
    \/ handleImageUpload(MaxUploads)

Spec == Init /\ [][Next]_vars

\* ------------------------------------------------- the page, used as rendered
\* mutant: the button stays enabled during an analysis
disabledIgnoresAnalyzing ==
    \/ image = 0
    \/ (variant # "Dashboard" /\ model = Null)

\* the Analyze button's disabled attribute: !image || isAnalyzing, and || !model in
\* part_000 and part_001
disabled ==
    \/ image = 0
    \/ isAnalyzing
    \/ (variant # "Dashboard" /\ model = Null)

\* a click on the enabled Analyze button calls the rendered analyzeImage
onClick(limit) == ~disabled /\ analyzeImage(limit)

\* A session in which analyzeImage is reached through the button only, and the
\* classifier computes its answer from the image it is given.
NextSession ==
    \/ onClick(SessionCalls)
    \/ \E r \in Slots : AfterDelay(r)
    \/ \E r \in Slots : PredictComputed(r)
    \/ \E r \in Slots : PredictRejected(r)
    \/ \E r \in Slots : AfterMockDelay(r)
    \/ ResetProgress
    \/ FetchMetadata
    \/ ParseMetadata
    \/ LoadClassifier
    \/ RefetchMetadata
    \/ ReparseMetadata
    \/ handleImageUpload(MaxUploads)

SpecSession == Init /\ [][NextSession]_vars

\* A session in which the user may choose a file once more, the analyses being started
\* from the button and answered by any classifier.
NextReplace ==
    \/ onClick(MaxCalls)
    \/ \E r \in Slots : AfterDelay(r)
    \/ \E r \in Slots : PredictResolved(r)
    \/ \E r \in Slots : PredictRejected(r)
    \/ \E r \in Slots : AfterMockDelay(r)
    \/ ResetProgress
    \/ FetchMetadata
    \/ ParseMetadata
    \/ LoadClassifier
    \/ RefetchMetadata
    \/ ReparseMetadata
    \/ handleImageUpload(SessionUploads)

SpecReplace == Init /\ [][NextReplace]_vars

\* ------------------------------------------------ the generator on its own
\* label lists the generator is examined on: those of the metadata bodies, and the
\* lists of 1 to Len(ClassNames) class names
GeneratorInputs ==
    { m \in MetaBodies : m.hasLabels } \cup
    { [isNull |-> FALSE, modelName |-> "", hasLabels |-> TRUE,
       labels |-> SubSeq(ClassNames, 1, len)] : len \in 1..Len(ClassNames) }

\* Dashboard.tsx in Degraded with a label list loaded: loadModel is over, the
\* classifier load was rejected, both metadata requests gave the same body
InitGenerator ==
    /\ variant = "Dashboard"
    /\ metadata \in GeneratorInputs
    /\ metadataJson = metadata
    /\ cb = [model |-> Null, image |-> 0, modelLoadError |-> FallbackMessage,
             metadata |-> metadata]
    /\ model = Null
    /\ modelLoadError = FallbackMessage
    /\ toasts = SetToBag({ModelFailedToast("Dashboard")})
    /\ pcLoad = "done"
    /\ metaFail = "none"
    /\ loadOutcome = "rejected"
    /\ loadedHandle = Null
    /\ image = 0
    /\ predictions = <<>>
    /\ isAnalyzing = FALSE
    /\ progressValue = 10
    /\ runs = [r \in Slots |-> NoRun]
    /\ calls = 0
    /\ timers = 0
    /\ lastReturned = <<>>
    /\ last = NoCall
    /\ classifier = [i \in Images |-> <<>>]
    /\ publishedFor = 0
    /\ email = ""
    /\ password = ""
    /\ isLoading = FALSE
    /\ loginTimers = <<>>
    /\ location = "/dashboard"
    /\ submits = 0

\* one call of generateMockPredictions, its draws taken on the finer grid; the result
\* is kept in predictions
Generate ==
    /\ predictions' \in FineResults(cb.metadata)
    /\ UNCHANGED <<loginVars, variant, image, isAnalyzing, metadata, model, modelLoadError,
                   progressValue, toasts, pcLoad, metadataJson, cb, runs, calls, timers,
                   metaFail, loadOutcome, loadedHandle, lastReturned, last, classifier,
                   publishedFor>>

SpecGenerator == InitGenerator /\ [][Generate]_vars

\* ------------------------------------------------------------------ Login
\* values the user may type into the two fields
LoginEmails == {"admin@gmail.com", "Admin@gmail.com", "user@gmail.com"}
LoginPasswords == {"admin123", "Admin123", "admin1234"}

LoginSuccessToast ==
    [title |-> "Login successful",
     description |-> <<"Welcome to the Soil Classification System">>,
     variant |-> "default"]

LoginFailedToast ==
    [title |-> "Login failed",
     description |-> <<"Invalid credentials. Use admin@gmail.com / admin123">>,
     variant |-> "destructive"]

\* the login page is shown and nothing was typed; the Dashboard is not mounted, its
\* variables hold what a mount starts from
InitLogin ==
    /\ variant = "Dashboard"
    /\ image = 0
    /\ predictions = <<>>
    /\ isAnalyzing = FALSE
    /\ metadata = NoMetadata
    /\ model = Null
    /\ modelLoadError = Null
    /\ progressValue = 10
    /\ toasts = EmptyBag
    /\ pcLoad = "fetch1"
    /\ metadataJson = NoMetadata
    /\ cb = [model |-> Null, image |-> 0, modelLoadError |-> Null, metadata |-> NoMetadata]
    /\ runs = [r \in Slots |-> NoRun]
    /\ calls = 0
    /\ timers = 0
    /\ metaFail = "none"
    /\ loadOutcome = "none"
    /\ loadedHandle = Null
    /\ lastReturned = <<>>
    /\ last = NoCall
    /\ classifier = [i \in Images |-> <<>>]
    /\ publishedFor = 0
    /\ email = ""
    /\ password = ""
    /\ isLoading = FALSE
    /\ loginTimers = <<>>
    /\ location = "/"
    /\ submits = 0

\* onChange of the email field: setEmail(e.target.value)
setEmail ==
    /\ location = "/"
    /\ \E v \in LoginEmails \cup {""} : email' = v
    /\ UNCHANGED <<dashboardVars, toasts, password, isLoading, loginTimers, location,
                   submits>>

\* onChange of the password field: setPassword(e.target.value)
setPassword ==
    /\ location = "/"
    /\ \E v \in LoginPasswords \cup {""} : password' = v
    /\ UNCHANGED <<dashboardVars, toasts, email, isLoading, loginTimers, location,
                   submits>>

\* the form lets a submission through: both fields are `required`, and the submit
\* button is disabled while isLoading
CanSubmit == email # "" /\ password # "" /\ ~isLoading

\* mutant: only the email is compared
AcceptsEmailOnly(e, p) == e = "admin@gmail.com"

\* email === "admin@gmail.com" && password === "admin123"
Accepts(e, p) == e = "admin@gmail.com" /\ p = "admin123"

\* the form is submitted: handleLogin up to its return; the timer callback closes over
\* the email and password of this render
handleLogin ==
    /\ location = "/"
    /\ submits < MaxSubmits
    /\ CanSubmit
    /\ submits' = submits + 1
    /\ isLoading' = TRUE
    /\ loginTimers' = Append(loginTimers, [email |-> email, password |-> password])
    /\ UNCHANGED <<dashboardVars, toasts, email, password, location>>

\* the 500 ms timer of handleLogin fires
CheckCredentials ==
    /\ loginTimers # <<>>
    /\ LET c == Head(loginTimers) IN
         IF Accepts(c.email, c.password)
         THEN /\ toasts' = Emit(LoginSuccessToast)
              /\ location' = "/dashboard"
         ELSE /\ toasts' = Emit(LoginFailedToast)
              /\ UNCHANGED location
    /\ isLoading' = FALSE
    /\ loginTimers' = Tail(loginTimers)
    /\ UNCHANGED <<dashboardVars, email, password, submits>>

NextLogin ==
    \/ setEmail
    \/ setPassword
    \/ handleLogin
    \/ CheckCredentials

SpecLogin == InitLogin /\ [][NextLogin]_vars

\* ------------------------------------------------------------------ claims
InFlight(r) == runs[r].pc \in {"delay", "predict", "mockDelay"}

\* C1: in Dashboard.tsx the acquisition state never leaves Ready or Degraded once it
\* got there, and a held classifier handle is never replaced or cleared.
AcquisitionMonotonic ==
    [][variant = "Dashboard" =>
          /\ (AcqState # "Loading" => AcqState' = AcqState)
          /\ (model # Null => model' = model)]_vars

\* C1 witness: Degraded, with loadModel's later steps and an analysis behind it
AcquisitionMonotonicWitness ==
    /\ variant = "Dashboard" /\ AcqState = "Degraded" /\ pcLoad = "done"
    /\ ~metadata.isNull
    /\ last.outcome = "done" /\ last.acqAtStart = "Degraded"

\* C2 (as claimed): once the metadata request failed (network error, non-success
\* status, unparsable body) the model stays null.
MetadataFailureNeverReady ==
    (variant \in {"Dashboard", "part_000"} /\ metaFail # "none") => model = Null

\* C3: in Dashboard.tsx, once the load call resolved the state is Ready with the
\* returned handle and exactly one 'Model loaded' notification was emitted, naming
\* metadataJson.modelName when present and "soil samples" otherwise.
LoadSuccessReady ==
    (variant = "Dashboard" /\ loadOutcome = "resolved") =>
        /\ AcqState = "Ready"
        /\ model = loadedHandle /\ model \in Handles
        /\ CopiesIn([title |-> "Model loaded",
                     description |-> <<"Ready to analyze ",
                                       IF metadataJson.modelName # ""
                                       THEN metadataJson.modelName ELSE "soil samples">>,
                     variant |-> "default"], toasts) = 1

\* C3 witness: loaded with a metadata body that names the model
LoadSuccessReadyWitness ==
    /\ variant = "Dashboard" /\ loadOutcome = "resolved" /\ AcqState = "Ready"
    /\ metadataJson.modelName = "Soil Classifier"

\* C4: in Dashboard.tsx and part_000, once the load call failed (rejected, or
\* window.tmImage missing in part_000) the state is Degraded with a non-empty reason, the
\* destructive 'Model loading failed' notification was emitted, and loadModel is in
\* or past its catch block.
LoadFailureDegrades ==
    (variant \in {"Dashboard", "part_000"} /\ loadOutcome \in {"rejected", "absent"}) =>
        /\ AcqState = "Degraded"
        /\ modelLoadError \notin {Null, ""}
        /\ model = Null
        /\ CopiesIn(ModelFailedToast(variant), toasts) = 1
        /\ ModelFailedToast(variant).variant = "destructive"
        /\ pcLoad \in {"fetch2", "json2", "done"}

\* C4 witness: part_000 found window.tmImage missing
LoadFailureDegradesWitness ==
    variant = "part_000" /\ loadOutcome = "absent" /\ pcLoad = "done"

\* C5: in Dashboard.tsx an analysis triggered in Ready holds the loaded handle, calls
\* predict after the delay, publishes exactly what predict resolved with, and calls
\* the generator only after predict rejected.
RealPredictWhenReady ==
    [][variant = "Dashboard" =>
          \A r \in Slots :
              /\ (InFlight(r)' /\ runs'[r].acqAtStart = "Ready") =>
                    /\ runs'[r].model = loadedHandle /\ runs'[r].model # Null
                    /\ runs'[r].pc \in {"delay", "predict"}
                    /\ runs'[r].mockCalls = 0
              /\ (InFlight(r) /\ runs[r].acqAtStart = "Ready" /\ runs'[r].pc = "returned") =>
                    /\ last'.predictOutcome = "resolved" =>
                          predictions' = lastReturned' /\ last'.mockCalls = 0
                    /\ last'.mockCalls > 0 => last'.predictOutcome = "rejected"]_vars

\* C5 witness: an analysis triggered in Ready published what predict returned
RealPredictWhenReadyWitness ==
    /\ variant = "Dashboard"
    /\ last.outcome = "done" /\ last.acqAtStart = "Ready"
    /\ last.predictOutcome = "resolved"
    /\ Len(predictions) = 3 /\ predictions = lastReturned

\* sum of the probabilities of a result, as numerator over the common denominator
RECURSIVE SumOfProbabilities(_, _)
SumOfProbabilities(preds, k) ==
    IF k = 0 THEN 0 ELSE preds[k].probability.n + SumOfProbabilities(preds, k - 1)

SumsToOne(preds) ==
    /\ Len(preds) > 0
    /\ \A i \in 1..Len(preds) : preds[i].probability.d = preds[1].probability.d
    /\ SumOfProbabilities(preds, Len(preds)) = preds[1].probability.d

\* C6 (as claimed): in Dashboard.tsx an analysis triggered in Degraded, with an image
\* and with a non-empty label list loaded, publishes one prediction per label of the
\* loaded metadata, summing to 1.
DegradedPublishesDistribution ==
    [][variant = "Dashboard" =>
          \A r \in Slots :
              ( /\ InFlight(r) /\ runs'[r].pc = "returned"
                /\ runs[r].acqAtStart = "Degraded" /\ runs[r].labelsAtStart > 0
                /\ runs[r].imageAtStart > 0 )
              => /\ last'.hasPublished
                 /\ Len(predictions') = runs[r].labelsAtStart
                 /\ SumsToOne(predictions')]_vars

\* C7 (as claimed): in Dashboard.tsx and part_001, an analysis whose predict rejected
\* has published a result and emitted 'Analysis complete', not a failure.
PredictFailureFallsBack ==
    (variant \in {"Dashboard", "part_001"} /\ last.predictOutcome = "rejected") =>
        /\ last.hasPublished
        /\ last.notified = "complete"
        /\ CopiesIn(AnalysisFailedToast(variant), toasts) = 0

\* C8 (as claimed): topPrediction is a maximal entry, and the earliest of the
\* maximal entries.
TopPredictionEarliestMax ==
    Len(predictions) > 0 =>
        \E i \in 1..Len(predictions) :
            /\ topPrediction = predictions[i]
            /\ \A j \in 1..Len(predictions) :
                 ~Greater(predictions[j].probability, predictions[i].probability)
            /\ \A j \in 1..(i - 1) :
                 Greater(predictions[i].probability, predictions[j].probability)

\* C9: in Dashboard.tsx and part_000, analyzeImage called with no image emits the
\* 'Please upload an image first' notification and nothing else: isAnalyzing,
\* predictions and progressValue keep their values and no analysis is started.
NoImageRejected ==
    [][(variant \in {"Dashboard", "part_000"} /\ image = 0 /\ calls' = calls + 1) =>
          /\ toasts' = toasts (+) SetToBag({[title |-> "Cannot analyze",
                                            description |-> <<"Please upload an image first">>,
                                            variant |-> "destructive"]})
          /\ UNCHANGED <<isAnalyzing, predictions, progressValue, lastReturned, timers>>
          /\ runs'[calls'].pc = "returned"
          /\ \A r \in Slots : r # calls' => runs'[r] = runs[r]]_vars

\* C9 witness: a call was rejected for want of an image
NoImageRejectedWitness ==
    /\ variant \in {"Dashboard", "part_000"}
    /\ last.outcome = "rejected" /\ last.imageAtStart = 0 /\ last.notified = "no image"

\* C10 (as claimed): in Dashboard.tsx and part_000 an analysis requested with an image
\* while acquisition is Loading is rejected as 'model not ready': nothing of it is in
\* flight, and it returned rejected.
LoadingRejected ==
    variant \in {"Dashboard", "part_000"} =>
        /\ \A r \in Slots :
             ~(InFlight(r) /\ runs[r].imageAtStart > 0 /\ runs[r].acqAtStart = "Loading")
        /\ (last.outcome # "none" /\ last.imageAtStart > 0 /\ last.acqAtStart = "Loading")
           => (last.outcome = "rejected" /\ last.notified = "model not loaded")

\* C10 (amended): part_000 rejects such a request as 'Model not loaded' and starts
\* nothing; Dashboard.tsx does not reject it: it never calls predict for it and
\* publishes what the generator returned once the two delays are over.
LoadingRejectedStrictOnly ==
    /\ \A r \in Slots :
         (InFlight(r) /\ runs[r].imageAtStart > 0 /\ runs[r].acqAtStart = "Loading")
         => variant = "Dashboard" /\ runs[r].pc \in {"delay", "mockDelay"}
    /\ (last.outcome # "none" /\ last.imageAtStart > 0 /\ last.acqAtStart = "Loading")
       => /\ variant = "part_000" =>
                /\ last.outcome = "rejected" /\ last.notified = "model not loaded"
                /\ ~last.hasPublished /\ last.predictOutcome = "none"
                /\ last.mockCalls = 0
                /\ CopiesIn(ModelNotLoadedToast, toasts) > 0
          /\ variant = "Dashboard" =>
                /\ last.outcome = "done" /\ last.predictOutcome = "none"
                /\ last.hasPublished /\ last.mockCalls = 1

\* C10 witness: part_000 rejected a request made with an image while Loading
LoadingRejectedStrictOnlyWitness ==
    /\ variant = "part_000"
    /\ last.outcome = "rejected" /\ last.imageAtStart > 0 /\ last.acqAtStart = "Loading"

\* C11: in Dashboard.tsx, used through its button with a classifier that computes its
\* answer from the image: when an analysis started in Ready publishes what predict
\* resolved with, and the analysis before it was one started in Ready for the same
\* image whose published result is still held, the result published is that same
\* sequence.
AnalyzeIdempotent ==
    [][variant = "Dashboard" =>
          \A r \in Slots :
              ( /\ runs[r].pc = "predict" /\ runs'[r].pc = "returned"
                /\ last'.predictOutcome = "resolved"
                /\ runs[r].acqAtStart = "Ready"
                /\ runs[r].input = runs[r].imageAtStart
                /\ last.outcome = "done" /\ last.predictOutcome = "resolved"
                /\ last.acqAtStart = "Ready"
                /\ last.imageAtStart = runs[r].imageAtStart
                /\ publishedFor = runs[r].imageAtStart )
              => /\ predictions' = predictions
                 /\ predictions' = classifier'[runs[r].input]]_vars

\* C11 witness: two analyses in a row, both started in Ready for the same image and
\* both answered by predict, and the answer is what is held
AnalyzeIdempotentWitness ==
    /\ variant = "Dashboard" /\ calls = 2 /\ last.resolved = 2
    /\ last.acqAtStart = "Ready" /\ last.imageAtStart = 1 /\ image = 1
    /\ Len(predictions) = 3 /\ predictions = classifier[1]

\* the entries of a result whose probability is at least 0.4
AtLeastFourTenths(preds) ==
    { i \in 1..Len(preds) : 10 * preds[i].probability.n >= 4 * preds[i].probability.d }

\* three predictions summing to 1, exactly one of them at least 0.4
ScenarioAResult(preds) ==
    /\ Len(preds) = 3
    /\ SumsToOne(preds)
    /\ Cardinality(AtLeastFourTenths(preds)) = 1

\* for each metadata value: does every draw of the generator give such a result
ScenarioAOnEveryDraw ==
    [meta \in MetaBodies \cup {NoMetadata} |->
        \A res \in FineResults(meta) : ScenarioAResult(res)]

\* the analysis in frame r belongs to Scenario A: the first metadata load gave three
\* labels, the classifier load failed, and the analysis was requested in Degraded
\* with three labels loaded
ScenarioA(r) ==
    /\ loadOutcome = "rejected" /\ Len(metadataJson.labels) = 3
    /\ runs[r].acqAtStart = "Degraded" /\ runs[r].labelsAtStart = 3

\* C12: Scenario A in Dashboard.tsx. Once three-label metadata was loaded and the
\* classifier load failed the state is Degraded; an analysis requested then calls the
\* generator with three labels, every draw of the generator (dominant index and raw
\* values, on the finer grid) gives three predictions summing to 1 with exactly one
\* at least 0.4, and such a result is what the analysis publishes.
ScenarioADistribution ==
    [][variant = "Dashboard" =>
          /\ (loadOutcome' = "rejected" /\ Len(metadataJson'.labels) = 3)
                => AcqState' = "Degraded"
          /\ \A r \in Slots :
                /\ (ScenarioA(r) /\ runs[r].pc = "delay" /\ runs'[r].pc # "delay") =>
                      /\ runs'[r].pc = "mockDelay"
                      /\ ScenarioAResult(runs'[r].prediction)
                      /\ ScenarioAOnEveryDraw[runs[r].metadata]
                /\ (ScenarioA(r) /\ InFlight(r) /\ runs'[r].pc = "returned") =>
                      /\ last'.hasPublished
                      /\ predictions' = runs[r].prediction
                      /\ ScenarioAResult(predictions')]_vars

\* C12 witness: Scenario A ran to its end and three predictions are held
ScenarioADistributionWitness ==
    /\ variant = "Dashboard" /\ loadOutcome = "rejected" /\ AcqState = "Degraded"
    /\ metadataJson.labels = <<"Clay", "Sand", "Loam">>
    /\ last.outcome = "done" /\ last.acqAtStart = "Degraded" /\ last.labelsAtStart = 3
    /\ last.mockCalls = 1 /\ ScenarioAResult(predictions)

\* C13 (as claimed): in part_000, while isAnalyzing is true the progress value never
\* decreases, and it is set to 0 only when no analysis is being processed.
ProgressMonotonic ==
    [][variant = "part_000" =>
          /\ (isAnalyzing /\ isAnalyzing') => progressValue' >= progressValue
          /\ (progressValue' = 0 /\ progressValue # 0) => ~isAnalyzing']_vars

\* C14 (as claimed): in Dashboard.tsx and part_000, an analysis that passed its
\* precondition checks returns with isAnalyzing false and a result set published,
\* whether predict resolved or rejected.
AnalysisEndsPublished ==
    [][(variant \in {"Dashboard", "part_000"}) =>
          \A r \in Slots :
              (InFlight(r) /\ runs'[r].pc = "returned")
              => /\ ~isAnalyzing'
                 /\ last'.outcome = "done"
                 /\ last'.hasPublished]_vars

\* C15 (as claimed): in Dashboard.tsx and part_001, once loadModel has run to its end
\* the acquisition state is Ready or Degraded, not Loading.
AcquisitionSettles ==
    (variant \in {"Dashboard", "part_001"} /\ pcLoad = "done")
        => AcqState \in {"Ready", "Degraded"}

\* res has one prediction per label of meta, named after the label at the same index
OnePerLabel(res, meta) ==
    /\ Len(res) = Len(meta.labels)
    /\ \A i \in 1..Len(res) : res[i].className = meta.labels[i]

\* C16 (as claimed): in Dashboard.tsx, whenever the generator is called (after the
\* delay when the real classifier is not used, or in the catch block after predict
\* rejected) while the loaded metadata has a label list, its result has one prediction
\* per label of that list, in order; and its result is empty only when the loaded
\* metadata has no label list.
SyntheticMatchesLabels ==
    [][variant = "Dashboard" =>
          \A r \in Slots :
              /\ (runs[r].pc = "delay" /\ runs'[r].pc = "mockDelay") =>
                    /\ metadata.hasLabels => OnePerLabel(runs'[r].prediction, metadata)
                    /\ runs'[r].prediction = <<>> => ~metadata.hasLabels
              /\ ( /\ runs[r].pc = "predict" /\ runs'[r].pc = "returned"
                    /\ last'.predictOutcome = "rejected" ) =>
                    /\ metadata.hasLabels => OnePerLabel(predictions', metadata)
                    /\ predictions' = <<>> => ~metadata.hasLabels]_vars

\* C17: for every label list the generator is examined on and every draw on the finer
\* grid (dominant index, dominant raw value in [0.4, 0.7), other raw values in
\* [0, 0.2)), the result has a non-zero divisor, every probability in [0, 1], and the
\* dominant label's probability strictly greater than every other label's.
GeneratorNormalized ==
    \A draw \in Draws(metadata, FineDen) :
        predictions = generateMockPredictions(metadata, FineDen, draw[1], draw[2]) =>
            LET dominantIndex == DominantIndex(Len(metadata.labels), FineDen, draw[1])
            IN  /\ Len(predictions) = Len(metadata.labels)
                /\ \A i \in 1..Len(predictions) :
                      /\ predictions[i].probability.d > 0
                      /\ predictions[i].probability.n >= 0
                      /\ predictions[i].probability.n <= predictions[i].probability.d
                /\ \A i \in 1..Len(predictions) :
                      i # dominantIndex =>
                          Greater(predictions[dominantIndex].probability,
                                  predictions[i].probability)

\* C17 witness: a three-label result whose dominant label is the second one and whose
\* other labels drew non-zero values
GeneratorNormalizedWitness ==
    /\ Len(predictions) = 3
    /\ predictions[1].probability.n > 0 /\ predictions[3].probability.n > 0
    /\ Greater(predictions[2].probability, predictions[1].probability)
    /\ Greater(predictions[2].probability, predictions[3].probability)

\* number of notifications emitted so far under the given title
Emitted(title) ==
    LET matching == { t \in BagToSet(toasts) : t.title = title }
        counts == [t \in matching |-> CopiesIn(t, toasts)]
        RECURSIVE Total(_)
        Total(ts) == IF ts = {} THEN 0
                     ELSE LET t == CHOOSE x \in ts : TRUE
                          IN  counts[t] + Total(ts \ {t})
    IN  Total(matching)

\* C18: in Dashboard.tsx loadModel has emitted no acquisition notification before its
\* load call settled or its try block threw, and exactly one from then on: 'Model
\* loaded' when the load call resolved, the destructive 'Model loading failed'
\* otherwise; never both, never neither.
OneAcquisitionNotice ==
    variant = "Dashboard" =>
        /\ pcLoad \in {"fetch1", "json1", "load"} =>
              Emitted("Model loaded") + Emitted("Model loading failed") = 0
        /\ pcLoad \in {"fetch2", "json2", "done"} =>
              /\ Emitted("Model loaded") + Emitted("Model loading failed") = 1
              /\ Emitted("Model loaded") = 1 <=> loadOutcome = "resolved"
              /\ Emitted("Model loading failed") = 1 =>
                    CopiesIn(ModelFailedToast(variant), toasts) = 1

\* C18 witness: loadModel ran to its end after the metadata body failed to parse
OneAcquisitionNoticeWitness ==
    /\ variant = "Dashboard" /\ pcLoad = "done" /\ metaFail = "body"
    /\ Emitted("Model loading failed") = 1 /\ Emitted("Model loaded") = 0

\* C19 (as claimed): in Dashboard.tsx a non-empty prediction list that is held was
\* published by an analysis started for the image that is currently uploaded.
PredictionsForCurrentImage ==
    (variant = "Dashboard" /\ Len(predictions) > 0) => publishedFor = image

\* C20: in Dashboard.tsx used through its button, at most one analyzeImage run is in
\* flight; isAnalyzing is true exactly while one is, and the button is disabled for
\* as long.
SingleAnalysisInFlight ==
    variant = "Dashboard" =>
        /\ Cardinality({ r \in Slots : InFlight(r) }) <= 1
        /\ isAnalyzing <=> (\E r \in Slots : InFlight(r))
        /\ isAnalyzing => disabled

\* C20 witness: a second analysis is in flight after the first one returned
SingleAnalysisInFlightWitness ==
    /\ variant = "Dashboard" /\ calls = 2 /\ isAnalyzing
    /\ last.outcome = "done" /\ last.hasPublished
    /\ runs[2].pc = "predict" /\ runs[1].pc = "returned"

\* C21: a check of handleLogin navigates to the dashboard exactly when the submitted
\* email is 'admin@gmail.com' and the submitted password is 'admin123'; otherwise it
\* emits 'Login failed' and the route stays; nothing else changes the route; and
\* isLoading is true from the submission until its check fires and false afterwards.
LoginGate ==
    [][/\ (loginTimers # <<>> /\ loginTimers' = Tail(loginTimers)) =>
            LET c == Head(loginTimers)
                ok == c.email = "admin@gmail.com" /\ c.password = "admin123"
            IN  /\ location' = "/dashboard" <=> ok
                /\ ok => toasts' = toasts (+) SetToBag({LoginSuccessToast})
                /\ ~ok => /\ toasts' = toasts (+) SetToBag({LoginFailedToast})
                          /\ location' = location
                /\ isLoading /\ ~isLoading'
       /\ submits' = submits + 1 =>
            /\ isLoading'
            /\ loginTimers' = Append(loginTimers, [email |-> email, password |-> password])
            /\ location' = location /\ toasts' = toasts
       /\ location' # location =>
            (loginTimers # <<>> /\ loginTimers' = Tail(loginTimers))
       /\ isLoading' <=> loginTimers' # <<>>]_vars

\* C21 witness: after a refused attempt, the right credentials were submitted and let
\* through although the email field was edited before the check fired
LoginGateWitness ==
    /\ location = "/dashboard" /\ ~isLoading /\ loginTimers = <<>>
    /\ submits = 2 /\ email # "admin@gmail.com"
    /\ CopiesIn(LoginFailedToast, toasts) = 1
    /\ CopiesIn(LoginSuccessToast, toasts) = 1
====
